---------------------------- MODULE Spec2Model ----------------------------
(***************************************************************************)
(* Model of pam_pwquality.c: the option parser _pam_parse, the message     *)
(* table make_error_message and the retry controller pam_sm_chauthtok.     *)
(*                                                                         *)
(* C strings are sequences of one-character strings, so that strcmp,       *)
(* strncmp and strtol are computed character by character.  The host (PAM) *)
(* and the quality library are the environment: every status and token     *)
(* they hand back is a nondeterministic choice from a small set.  Every    *)
(* call the module makes to them is appended to the history `calls`.       *)
(***************************************************************************)
EXTENDS Integers, Sequences, FiniteSets, TLC

VARIABLES
    argv,         \* the option strings of this invocation (argc = Len(argv))
    flags,        \* the phase flags, as the set of bits that are set
    uid,          \* what getuid() returns
    pc,           \* position inside pam_sm_chauthtok / _pam_parse
    argi,         \* _pam_parse: number of arguments already stepped through
    ctrl,         \* int ctrl
    retry_times,  \* options.retry_times
    pwq,          \* options.pwq / the local pwq: "NULL" or "pwq"
    oldtoken,     \* const void *oldtoken
    newtoken,     \* const char *newtoken
    tries,        \* int tries
    retval,       \* int retval
    items,        \* the host's per-session item store
    calls,        \* history of the calls made to the host and the library
    result        \* <<>> while running, <<status>> once returned

vars == <<argv, flags, uid, pc, argi, ctrl, retry_times, pwq, oldtoken,
          newtoken, tries, retval, items, calls, result>>

---------------------------------------------------------------------------
(* Bounds of the model *)

\* largest N of a retry=N option in the controller's specification
MaxRetry == 3

\* longest value <v> of a retry=<v> option in the parser's specification
MaxValLen == 2

\* the message table's specification tries the results -MaxPwqCode .. -1
MaxPwqCode == 30

---------------------------------------------------------------------------
(* Constants of the program and of the headers it includes *)

PAM_DEBUG_ARG == 1

CO_RETRY_TIMES == 1

PAM_SUCCESS == 0

PAM_SERVICE_ERR == 3

PAM_SYSTEM_ERR == 4

PAM_BUF_ERR == 5

PAM_MAXTRIES == 11

PAM_CONV_ERR == 19

PAM_AUTHTOK_ERR == 20

PAM_TRY_AGAIN == 24

PWQ_ERROR_MEM_ALLOC == -8

PWQ_ERROR_TOO_SIMILAR == -9

PWQ_ERROR_MIN_DIGITS == -10

PWQ_ERROR_MIN_UPPERS == -11

PWQ_ERROR_MIN_LOWERS == -12

PWQ_ERROR_MIN_OTHERS == -13

PWQ_ERROR_MIN_LENGTH == -14

PWQ_ERROR_PALINDROME == -15

PWQ_ERROR_CASE_CHANGES_ONLY == -16

PWQ_ERROR_ROTATED == -17

PWQ_ERROR_MIN_CLASSES == -18

PWQ_ERROR_MAX_CONSECUTIVE == -19

PWQ_ERROR_EMPTY_PASSWORD == -20

PWQ_ERROR_SAME_PASSWORD == -21

PWQ_ERROR_CRACKLIB_CHECK == -22

FlagBits == {"PAM_PRELIM_CHECK", "PAM_UPDATE_AUTHTOK", "PAM_CHANGE_EXPIRED_AUTHTOK"}

---------------------------------------------------------------------------
(* C string functions *)

\* strcmp(s, t) == 0
StrEq(s, t) == s = t

\* strncmp(s, p, Len(p)) == 0: s starts with p
StartsWith(s, p) == Len(s) >= Len(p) /\ SubSeq(s, 1, Len(p)) = p

\* s + n: the string from its n-th character on (0-based n)
StrFrom(s, n) == SubSeq(s, n + 1, Len(s))

\* isspace(c) in the C locale: blank, \t, \n, \v, \f and \r
IsSpace(c) == c \in {" ", "\t", "\n", "", "\f", "\r"}

IsDigit(c) == c \in {"0", "1", "2", "3", "4", "5", "6", "7", "8", "9"}

DigitVal(c) ==
    CASE c = "0" -> 0 [] c = "1" -> 1 [] c = "2" -> 2 [] c = "3" -> 3
      [] c = "4" -> 4 [] c = "5" -> 5 [] c = "6" -> 6 [] c = "7" -> 7
      [] c = "8" -> 8 [] c = "9" -> 9

\* index of the first character of s at or after i that is not white space
RECURSIVE SkipSpace(_, _)
SkipSpace(s, i) ==
    IF i <= Len(s) /\ IsSpace(s[i]) THEN SkipSpace(s, i + 1) ELSE i

\* A long is kept as sign and magnitude, the magnitude as four 16-bit limbs,
\* least significant first, so that no intermediate value leaves the range
\* of the model checker's integers.
Limb == 65536

LongZero == <<0, 0, 0, 0>>

\* LONG_MAX = 2^63 - 1 and the magnitude 2^63 of LONG_MIN
LongMaxMag == <<65535, 65535, 65535, 32767>>

LongMinMag == <<0, 0, 0, 32768>>

\* m * 10 + d on the limbs: <<limbs, carry out of the 64 bits>>
MulAdd(m, d) ==
    LET t1 == m[1] * 10 + d
        t2 == m[2] * 10 + t1 \div Limb
        t3 == m[3] * 10 + t2 \div Limb
        t4 == m[4] * 10 + t3 \div Limb
    IN  <<<<t1 % Limb, t2 % Limb, t3 % Limb, t4 % Limb>>, t4 \div Limb>>

\* the digits of s from index i on: <<magnitude accumulated, whether it went
\* beyond 64 bits, index after the digits>>
RECURSIVE ScanDigits(_, _, _, _)
ScanDigits(s, i, acc, over) ==
    IF i <= Len(s) /\ IsDigit(s[i])
    THEN LET r == MulAdd(acc, DigitVal(s[i]))
         IN  ScanDigits(s, i + 1, r[1], over \/ r[2] > 0)
    ELSE <<acc, over, i>>

\* the magnitude strtol returns: clamped to LONG_MAX, or to LONG_MIN for a
\* negative number
ClampLong(neg, mag, over) ==
    IF neg
    THEN IF over \/ mag[4] >= 32768 THEN LongMinMag ELSE mag
    ELSE IF over \/ mag[4] >= 32768 THEN LongMaxMag ELSE mag

\* strtol(s, &ep, 10): val is the result as [neg, mag], ep the index in s
\* (1-based) of the first character not converted; ep = 1 when no digits
\* were found (ep then points to s itself).  ep = 0 stands for a null
\* pointer, which strtol never stores.
strtol(s) ==
    LET i0   == SkipSpace(s, 1)
        neg  == i0 <= Len(s) /\ s[i0] = "-"
        i1   == IF i0 <= Len(s) /\ s[i0] \in {"-", "+"} THEN i0 + 1 ELSE i0
        scan == ScanDigits(s, i1, LongZero, FALSE)
    IN  IF scan[3] = i1
        THEN [val |-> [neg |-> FALSE, mag |-> LongZero], ep |-> 1]
        ELSE [val |-> [neg |-> neg, mag |-> ClampLong(neg, scan[1], scan[2])],
              ep |-> scan[3]]

\* the int a long is converted to by the assignment to opt->retry_times: its
\* low 32 bits in two's complement
LongToInt(l) ==
    LET lo == l.mag[1]
        hi == l.mag[2]
        nlo == IF l.neg THEN (Limb - lo) % Limb ELSE lo
        nhi == IF l.neg
               THEN (IF lo = 0 THEN Limb - hi ELSE Limb - 1 - hi) % Limb
               ELSE hi
    IN  IF nhi >= 32768 THEN (nhi - Limb) * Limb + nlo ELSE nhi * Limb + nlo

---------------------------------------------------------------------------
(* Option strings *)

S_debug == <<"d", "e", "b", "u", "g">>

S_type == <<"t", "y", "p", "e", "=">>

S_retry == <<"r", "e", "t", "r", "y", "=">>

S_reject_username ==
    <<"r", "e", "j", "e", "c", "t", "_", "u", "s", "e", "r", "n", "a", "m", "e">>

S_authtok_type == <<"a", "u", "t", "h", "t", "o", "k", "_", "t", "y", "p", "e">>

S_use_authtok == <<"u", "s", "e", "_", "a", "u", "t", "h", "t", "o", "k">>

S_use_first_pass ==
    <<"u", "s", "e", "_", "f", "i", "r", "s", "t", "_", "p", "a", "s", "s">>

S_try_first_pass ==
    <<"t", "r", "y", "_", "f", "i", "r", "s", "t", "_", "p", "a", "s", "s">>

\* an option this module does not know: handed to pwquality_set_option
S_minlen8 == <<"m", "i", "n", "l", "e", "n", "=", "8">>

S_typeX == S_type \o <<"X">>

---------------------------------------------------------------------------
(* The history of calls to the host and to the quality library *)

\* one call: op its name, cyc the value of tries when it was made, ret the
\* status it returned, a and b its arguments or what it handed back
Ev(op, cyc, ret, a, b) == [op |-> op, cyc |-> cyc, ret |-> ret, a |-> a, b |-> b]

Syslog(cyc, level, msg) == Ev("pam_syslog", cyc, 0, level, msg)

ClearAuthtok(cyc) == Ev("pam_set_item", cyc, 0, "PAM_AUTHTOK", "NULL")

---------------------------------------------------------------------------
(* _pam_parse *)

\* ctrl |= PAM_DEBUG_ARG
OrDebugArg(c) == IF c % 2 = PAM_DEBUG_ARG THEN c ELSE c + PAM_DEBUG_ARG

\* a debug flag that reads as set whatever the options
DebugOnAlways(c) == TRUE

\* ctrl & PAM_DEBUG_ARG
DebugOn(c) == c % 2 = PAM_DEBUG_ARG

\* which branch of the if / else-if chain an argument takes
ArgKind(arg) ==
    IF StrEq(arg, S_debug) THEN "debug"
    ELSE IF StartsWith(arg, S_type) THEN "type"
    ELSE IF StartsWith(arg, S_retry) THEN "retry"
    ELSE IF StartsWith(arg, S_reject_username) THEN "ignored"
    ELSE IF StartsWith(arg, S_authtok_type) THEN "ignored"
    ELSE IF StartsWith(arg, S_use_authtok) THEN "ignored"
    ELSE IF StartsWith(arg, S_use_first_pass) THEN "ignored"
    ELSE IF StartsWith(arg, S_try_first_pass) THEN "ignored"
    ELSE "library"

\* opt->retry_times after a retry=<v> argument
RetryValue(arg) ==
    LET r == strtol(StrFrom(arg, 6))
        n == LongToInt(r.val)
    IN  IF r.ep = 0 \/ n < 1 THEN CO_RETRY_TIMES ELSE n

\* one iteration of the argument loop; st holds ctrl, retry_times, items and
\* calls; rejected is what pwquality_set_option answers for this argument
ParseArg(st, arg, rejected) ==
    LET kind == ArgKind(arg)
    IN  CASE kind = "debug" -> [st EXCEPT !.ctrl = OrDebugArg(@)]
          [] kind = "type" ->
                [st EXCEPT !.items = [@ EXCEPT !.PAM_AUTHTOK_TYPE = StrFrom(arg, 5)],
                           !.calls = Append(@, Ev("pam_set_item", 0, 0,
                                                  "PAM_AUTHTOK_TYPE", "argv+5"))]
          [] kind = "retry" -> [st EXCEPT !.retry_times = RetryValue(arg)]
          [] kind = "ignored" -> st
          [] kind = "library" ->
                [st EXCEPT !.calls =
                    LET c == Append(@, Ev("pwquality_set_option", 0,
                                          IF rejected THEN 1 ELSE 0, "pwq", "argv"))
                    IN  IF rejected
                        THEN Append(c, Syslog(0, "LOG_ERR",
                                              "pam_parse: unknown or broken option"))
                        ELSE c]

\* the calls of lines 57-64 when the settings object was allocated
ReadConfigCalls(c, read_ok) ==
    LET c1 == Append(c, Ev("pwquality_default_settings", 0, 0, "pwq", ""))
        c2 == Append(c1, Ev("pwquality_read_config", 0,
                            IF read_ok THEN 0 ELSE 1, "pwq", "NULL"))
    IN  IF read_ok
        THEN c2
        ELSE Append(c2, Syslog(0, "LOG_ERR",
                               "Reading pwquality configuration file failed"))

\* the argument loop from argument i on; bad is the set of argument
\* positions whose option pwquality_set_option rejects
RECURSIVE ParseFrom(_, _, _, _)
ParseFrom(st, args, i, bad) ==
    IF i > Len(args) THEN st
    ELSE ParseFrom(ParseArg(st, args[i], i \in bad), args, i + 1, bad)

\* positions of the arguments that reach pwquality_set_option
LibraryArgs(args) == {i \in 1..Len(args) : ArgKind(args[i]) = "library"}

\* _pam_parse as a whole: the return value (-1, or ctrl) and what it leaves
\* in *opt, in the item store and in the history
PamParse(args, its, c, alloc_ok, read_ok, bad) ==
    IF ~alloc_ok
    THEN [ret |-> -1, ctrl |-> 0, retry_times |-> CO_RETRY_TIMES, pwq |-> "NULL",
          items |-> its,
          calls |-> Append(c, Ev("pwquality_default_settings", 0, 0, "NULL", ""))]
    ELSE LET st0 == [ctrl |-> 0, retry_times |-> CO_RETRY_TIMES, items |-> its,
                     calls |-> ReadConfigCalls(c, read_ok)]
             st  == ParseFrom(st0, args, 1, bad)
         IN  [ret |-> st.ctrl, ctrl |-> st.ctrl, retry_times |-> st.retry_times,
              pwq |-> "pwq", items |-> st.items, calls |-> st.calls]

---------------------------------------------------------------------------
(* make_error_message *)

\* a table whose case label for the minimum length is missing
make_error_message_short(rv, crack_msg) ==
    CASE rv = PWQ_ERROR_MEM_ALLOC -> "memory allocation error"
      [] rv = PWQ_ERROR_SAME_PASSWORD -> "is the same as the old one"
      [] rv = PWQ_ERROR_PALINDROME -> "is a palindrome"
      [] rv = PWQ_ERROR_CASE_CHANGES_ONLY -> "case changes only"
      [] rv = PWQ_ERROR_TOO_SIMILAR -> "is too similar to the old one"
      [] rv \in {PWQ_ERROR_MIN_DIGITS, PWQ_ERROR_MIN_UPPERS, PWQ_ERROR_MIN_LOWERS,
                 PWQ_ERROR_MIN_OTHERS} -> "is too simple"
      [] rv = PWQ_ERROR_ROTATED -> "is rotated"
      [] rv = PWQ_ERROR_MIN_CLASSES -> "not enough character classes"
      [] rv = PWQ_ERROR_MAX_CONSECUTIVE ->
             "contains too many same characters consecutively"
      [] rv = PWQ_ERROR_EMPTY_PASSWORD -> "No password supplied"
      [] rv = PWQ_ERROR_CRACKLIB_CHECK -> crack_msg
      [] OTHER -> "Error in service module"

make_error_message(rv, crack_msg) ==
    CASE rv = PWQ_ERROR_MEM_ALLOC -> "memory allocation error"
      [] rv = PWQ_ERROR_SAME_PASSWORD -> "is the same as the old one"
      [] rv = PWQ_ERROR_PALINDROME -> "is a palindrome"
      [] rv = PWQ_ERROR_CASE_CHANGES_ONLY -> "case changes only"
      [] rv = PWQ_ERROR_TOO_SIMILAR -> "is too similar to the old one"
      [] rv \in {PWQ_ERROR_MIN_DIGITS, PWQ_ERROR_MIN_UPPERS, PWQ_ERROR_MIN_LOWERS,
                 PWQ_ERROR_MIN_OTHERS, PWQ_ERROR_MIN_LENGTH} -> "is too simple"
      [] rv = PWQ_ERROR_ROTATED -> "is rotated"
      [] rv = PWQ_ERROR_MIN_CLASSES -> "not enough character classes"
      [] rv = PWQ_ERROR_MAX_CONSECUTIVE ->
             "contains too many same characters consecutively"
      [] rv = PWQ_ERROR_EMPTY_PASSWORD -> "No password supplied"
      [] rv = PWQ_ERROR_CRACKLIB_CHECK -> crack_msg
      [] OTHER -> "Error in service module"

---------------------------------------------------------------------------
(* The environment: what the host and the quality library may answer *)

\* what getuid() may return: root, or an ordinary user
Uids == {0, 1000}

\* non-success statuses of the host's token-retrieval calls.  The module
\* only tests the status against PAM_SUCCESS and hands it on, so the set
\* holds the two statuses that coincide with statuses the module itself
\* returns (PAM_AUTHTOK_ERR, which Linux-PAM answers for a failed
\* conversation, and PAM_BUF_ERR) and two that do not.
HostErrors == {PAM_BUF_ERR, PAM_CONV_ERR, PAM_AUTHTOK_ERR, PAM_TRY_AGAIN}

\* the passwords the user may type
NewTokens == {"newpass"}

\* what pam_get_authtok_noverify / pam_get_authtok_verify may answer:
\* <<status, *authtok afterwards>>.  On an error the host does not write
\* *authtok, which keeps the value cur it had before the call; "NULL" with
\* success is the user's abort; typed are the tokens it may hand back.
TokenAnswers(typed, cur) ==
    {<<e, cur>> : e \in HostErrors} \cup {<<PAM_SUCCESS, "NULL">>}
        \cup {<<PAM_SUCCESS, t>> : t \in typed}

\* what pwquality_check may answer: <<result, *auxerror>>
QualityAnswers ==
    {<<PWQ_ERROR_MIN_LENGTH, "NULL">>,
     <<PWQ_ERROR_CRACKLIB_CHECK, "it is based on a dictionary word">>,
     <<60, "NULL">>}

\* the messages the library may leave in *auxerror
CrackMsgs == {"NULL", "it is based on a dictionary word", "it is too short"}

\* every negative result down to -MaxPwqCode with every library message, and
\* a score
AllQualityAnswers ==
    {<<0 - n, m>> : n \in 1..MaxPwqCode, m \in CrackMsgs} \cup {<<60, "NULL">>}

\* what pam_get_item(PAM_OLDAUTHTOK) may answer, given the stored item
OldTokenAnswers(stored) == {<<PAM_SUCCESS, stored>>, <<PAM_SYSTEM_ERR, "NULL">>}

---------------------------------------------------------------------------
(* The decisions of pam_sm_chauthtok *)

\* a preliminary check that is never recognised
PrelimPhaseNever(f) == FALSE

\* flags & PAM_PRELIM_CHECK
PrelimPhase(f) == "PAM_PRELIM_CHECK" \in f

\* an update phase that is entered whatever the flags
UpdatePhaseAlways(f) == TRUE

\* flags & PAM_UPDATE_AUTHTOK
UpdatePhase(f) == "PAM_UPDATE_AUTHTOK" \in f

\* a loop that runs once too often
LoopContinuesOffByOne(t, n) == t <= n

\* while (tries < options.retry_times)
LoopContinues(t, n) == t < n

\* a candidate request whose status is not looked at
CandidateFailedNever(ret) == FALSE

\* retval != PAM_SUCCESS after pam_get_authtok_noverify
CandidateFailed(ret) == ret # PAM_SUCCESS

\* a verification whose status is not looked at
VerifyFailedNever(ret) == FALSE

\* retval != PAM_SUCCESS after pam_get_authtok_verify
VerifyFailed(ret) == ret # PAM_SUCCESS

\* a null token that is not taken for an abort
UserAbortedNever(tok) == FALSE

\* a test for an empty token in place of the test for no token
UserAbortedWhenEmpty(tok) == tok = ""

\* newtoken == NULL: the user aborted the password change
UserAborted(tok) == tok = "NULL"

\* a check whose every result counts as a rejection
RejectedAlways(rv) == TRUE

\* retval < 0 after pwquality_check
Rejected(rv) == rv < 0

\* a rejection that stands for everyone
BlockingAlways(u, f) == TRUE

\* a rejection that stands for ordinary users only, expired change or not
BlockingNonRootOnly(u, f) == u # 0

\* getuid() || (flags & PAM_CHANGE_EXPIRED_AUTHTOK): the rejection stands
Blocking(u, f) == u # 0 \/ "PAM_CHANGE_EXPIRED_AUTHTOK" \in f

\* a blocking path that leaves retval at the library's result
BlockedStatusRaw(rv) == rv

\* retval = PAM_AUTHTOK_ERR on the blocking path; rv is the rejection
BlockedStatus(rv) == PAM_AUTHTOK_ERR

\* the real reason returned whatever the retry limit
ExhaustStatusRaw(n, rv) == rv

\* the real reason still returned with two tries
ExhaustStatusOffByOne(n, rv) == IF n > 2 THEN PAM_MAXTRIES ELSE rv

\* what is returned once the loop has run out
ExhaustStatus(n, rv) == IF n > 1 THEN PAM_MAXTRIES ELSE rv

\* a clearing that leaves the item as it is
ClearPendingNot(its) == its

\* pam_set_item(pamh, PAM_AUTHTOK, NULL): the item store afterwards
ClearPending(its) == [its EXCEPT !.PAM_AUTHTOK = "NULL"]

\* a parsing failure that is not noticed
ParseFailedNever(c) == FALSE

\* ctrl < 0 after _pam_parse
ParseFailed(c) == c < 0

\* return <status>
Return(status) == /\ result' = <<status>>
                  /\ pc' = "done"

---------------------------------------------------------------------------
(* pam_sm_chauthtok, one action per stretch between two calls that the     *)
(* environment answers                                                      *)

\* lines 141-146: the options are parsed; a failed allocation ends the call
Parse ==
    /\ pc = "entry"
    /\ \E alloc_ok \in BOOLEAN, read_ok \in BOOLEAN, bad \in SUBSET LibraryArgs(argv) :
          /\ (~alloc_ok => read_ok /\ bad = {})
          /\ LET r == PamParse(argv, items, calls, alloc_ok, read_ok, bad)
             IN  /\ ctrl' = r.ret
                 /\ retry_times' = r.retry_times
                 /\ pwq' = r.pwq
                 /\ items' = r.items
                 /\ calls' = r.calls
                 /\ IF ParseFailed(r.ret)
                    THEN Return(PAM_BUF_ERR)
                    ELSE pc' = "phase" /\ result' = result
          /\ argi' = IF alloc_ok THEN Len(argv) ELSE argi
    /\ UNCHANGED <<argv, flags, uid, oldtoken, newtoken, tries, retval>>

\* lines 148-153: the preliminary check does nothing
Prelim ==
    /\ pc = "phase"
    /\ PrelimPhase(flags)
    /\ Return(PAM_SUCCESS)
    /\ UNCHANGED <<argv, flags, uid, argi, ctrl, retry_times, pwq, oldtoken,
                   newtoken, tries, retval, items, calls>>

\* lines 154-166: the old token is read and the loop is set up
BeginUpdate ==
    /\ pc = "phase"
    /\ ~PrelimPhase(flags)
    /\ UpdatePhase(flags)
    /\ \E ans \in OldTokenAnswers(items.PAM_OLDAUTHTOK) :
          LET c1 == Append(calls, Ev("pam_get_item", 0, ans[1], "PAM_OLDAUTHTOK", ans[2]))
          IN  /\ retval' = ans[1]
              /\ IF ans[1] # PAM_SUCCESS
                 THEN /\ oldtoken' = "NULL"
                      /\ calls' = IF DebugOn(ctrl)
                                  THEN Append(c1, Syslog(0, "LOG_ERR", "Can not get old passwd"))
                                  ELSE c1
                 ELSE /\ oldtoken' = ans[2]
                      /\ calls' = c1
    /\ tries' = 0
    /\ pc' = "loop"
    /\ UNCHANGED <<argv, flags, uid, argi, ctrl, retry_times, pwq, newtoken,
                   items, result>>

\* lines 231-236: neither phase flag is set
UnknownFlags ==
    /\ pc = "phase"
    /\ ~PrelimPhase(flags)
    /\ ~UpdatePhase(flags)
    /\ calls' = IF DebugOn(ctrl)
                THEN Append(calls, Syslog(0, "LOG_NOTICE", "UNKNOWN flags setting"))
                ELSE calls
    /\ Return(PAM_SERVICE_ERR)
    /\ UNCHANGED <<argv, flags, uid, argi, ctrl, retry_times, pwq, oldtoken,
                   newtoken, tries, retval, items>>

\* lines 167-188: a cycle starts and the candidate is requested.  The host
\* stores a token it hands back as the AUTHTOK item.
GetCandidate ==
    /\ pc = "loop"
    /\ LoopContinues(tries, retry_times)
    /\ tries' = tries + 1
    /\ \E ans \in TokenAnswers(NewTokens, "NULL") :
          LET c1 == Append(calls, Ev("pam_get_authtok_noverify", tries + 1,
                                     ans[1], ans[2], ""))
          IN  /\ retval' = ans[1]
              /\ newtoken' = ans[2]
              /\ IF CandidateFailed(ans[1])
                 THEN /\ calls' = Append(c1, Syslog(tries + 1, "LOG_ERR",
                                         "pam_get_authtok_noverify returned error"))
                      /\ pc' = "loop"
                      /\ UNCHANGED <<items, result>>
                 ELSE IF UserAborted(ans[2])
                 THEN /\ calls' = c1
                      /\ Return(PAM_AUTHTOK_ERR)
                      /\ UNCHANGED items
                 ELSE /\ calls' = c1
                      /\ items' = [items EXCEPT !.PAM_AUTHTOK = ans[2]]
                      /\ pc' = "check"
                      /\ UNCHANGED result
    /\ UNCHANGED <<argv, flags, uid, argi, ctrl, retry_times, pwq, oldtoken>>

\* lines 190-208: the candidate is tested against the quality library,
\* which answers with one of answers; the call is recorded with the
\* candidate and the message the library left in crack_msg
QualityCheckOn(answers) ==
    /\ pc = "check"
    /\ \E ans \in answers :
          LET rv  == ans[1]
              c1  == Append(calls, Ev("pwquality_check", tries, rv, newtoken, ans[2]))
              msg == make_error_message(rv, ans[2])
              c2  == IF DebugOn(ctrl)
                     THEN Append(c1, Syslog(tries, "LOG_DEBUG", "bad password"))
                     ELSE c1
              c3  == Append(c2, Ev("pam_error", tries, 0, "BAD PASSWORD", msg))
          IN  IF Rejected(rv)
              THEN IF Blocking(uid, flags)
                   THEN /\ calls' = Append(c3, ClearAuthtok(tries))
                        /\ items' = ClearPending(items)
                        /\ retval' = BlockedStatus(rv)
                        /\ pc' = "loop"
                   ELSE /\ calls' = c3
                        /\ retval' = rv
                        /\ pc' = "verify"
                        /\ UNCHANGED items
              ELSE /\ calls' = IF DebugOn(ctrl)
                               THEN Append(c1, Syslog(tries, "LOG_DEBUG", "password score"))
                               ELSE c1
                   /\ retval' = rv
                   /\ pc' = "verify"
                   /\ UNCHANGED items
    /\ UNCHANGED <<argv, flags, uid, argi, ctrl, retry_times, pwq, oldtoken,
                   newtoken, tries, result>>

QualityCheck == QualityCheckOn(QualityAnswers)

\* lines 210-220: the password is requested a second time.  The host hands
\* back the stored candidate when the two entries match.
Verify ==
    /\ pc = "verify"
    /\ \E ans \in TokenAnswers({items.PAM_AUTHTOK}, newtoken) :
          LET c1 == Append(calls, Ev("pam_get_authtok_verify", tries, ans[1], ans[2], ""))
          IN  /\ retval' = ans[1]
              /\ newtoken' = ans[2]
              /\ IF VerifyFailed(ans[1])
                 THEN /\ calls' = Append(Append(c1, Syslog(tries, "LOG_ERR",
                                            "pam_get_authtok_verify returned error")),
                                         ClearAuthtok(tries))
                      /\ items' = ClearPending(items)
                      /\ pc' = "loop"
                      /\ UNCHANGED result
                 ELSE IF UserAborted(ans[2])
                 THEN /\ calls' = c1
                      /\ Return(PAM_AUTHTOK_ERR)
                      /\ UNCHANGED items
                 ELSE /\ calls' = c1
                      /\ Return(PAM_SUCCESS)
                      /\ UNCHANGED items
    /\ UNCHANGED <<argv, flags, uid, argi, ctrl, retry_times, pwq, oldtoken, tries>>

\* lines 223-230: the loop has run out
Exhausted ==
    /\ pc = "loop"
    /\ ~LoopContinues(tries, retry_times)
    /\ calls' = Append(calls, ClearAuthtok(tries))
    /\ items' = ClearPending(items)
    /\ Return(ExhaustStatus(retry_times, retval))
    /\ UNCHANGED <<argv, flags, uid, argi, ctrl, retry_times, pwq, oldtoken,
                   newtoken, tries, retval>>

---------------------------------------------------------------------------
(* The controller's specification *)

\* retry=<n> for a one-digit n
RetryOpt(n) == S_retry \o <<CHOOSE c \in {"0", "1", "2", "3", "4", "5", "6", "7", "8", "9"} :
                                DigitVal(c) = n>>

\* the option lists of the controller's specification
ArgvSet ==
    {d \o r : d \in {<<>>, <<S_debug>>},
              r \in {<<>>} \cup {<<RetryOpt(n)>> : n \in 1..MaxRetry}}

\* the state on entry, for the option lists of args
InitWith(args) ==
    /\ argv \in args
    /\ flags \in SUBSET FlagBits
    /\ uid \in Uids
    /\ pc = "entry"
    /\ argi = 0
    /\ ctrl = 0
    /\ retry_times = CO_RETRY_TIMES
    /\ pwq = "NULL"
    /\ oldtoken = "NULL"
    /\ newtoken = "NULL"
    /\ tries = 0
    /\ retval = 0
    /\ items \in {[PAM_AUTHTOK |-> "NULL", PAM_OLDAUTHTOK |-> o, PAM_AUTHTOK_TYPE |-> <<>>] :
                    o \in {"NULL", "OldPass1!"}}
    /\ calls = <<>>
    /\ result = <<>>

Init == InitWith(ArgvSet)

Next ==
    \/ Parse
    \/ Prelim
    \/ BeginUpdate
    \/ UnknownFlags
    \/ GetCandidate
    \/ QualityCheck
    \/ Verify
    \/ Exhausted

Spec == Init /\ [][Next]_vars

---------------------------------------------------------------------------
(* The parser's specification: _pam_parse alone, one action per iteration  *)
(* of its argument loop, over a wide set of retry=<v> values                *)

\* lines 57-64: the settings object is allocated and the configuration read
ParseAlloc ==
    /\ pc = "parse_entry"
    /\ \E alloc_ok \in BOOLEAN, read_ok \in BOOLEAN :
          /\ (~alloc_ok => read_ok)
          /\ IF alloc_ok
             THEN /\ calls' = ReadConfigCalls(calls, read_ok)
                  /\ ctrl' = 0
                  /\ pc' = "parse_args"
             ELSE /\ calls' = Append(calls, Ev("pwquality_default_settings", 0, 0, "NULL", ""))
                  /\ ctrl' = -1
                  /\ pc' = "parse_done"
    /\ UNCHANGED <<argv, flags, uid, argi, retry_times, pwq, oldtoken, newtoken,
                   tries, retval, items, result>>

\* lines 67-92: one argument is stepped through
ParseStep ==
    /\ pc = "parse_args"
    /\ argi < Len(argv)
    /\ \E rejected \in BOOLEAN :
          /\ (rejected => ArgKind(argv[argi + 1]) = "library")
          /\ LET st == ParseArg([ctrl |-> ctrl, retry_times |-> retry_times,
                                 items |-> items, calls |-> calls],
                                argv[argi + 1], rejected)
             IN  /\ ctrl' = st.ctrl
                 /\ retry_times' = st.retry_times
                 /\ items' = st.items
                 /\ calls' = st.calls
    /\ argi' = argi + 1
    /\ UNCHANGED <<argv, flags, uid, pc, pwq, oldtoken, newtoken, tries, retval,
                   result>>

\* lines 94-96: the settings are handed over and ctrl is returned
ParseReturn ==
    /\ pc = "parse_args"
    /\ argi = Len(argv)
    /\ pwq' = "pwq"
    /\ pc' = "parse_done"
    /\ UNCHANGED <<argv, flags, uid, argi, ctrl, retry_times, oldtoken, newtoken,
                   tries, retval, items, calls, result>>

\* the characters a retry value is made of
ValChars == {"0", "1", "3", "-", "+", " ", "\t", "a"}

\* values at and beyond the ends of the ranges of int and long
LongVals ==
    {<<"2", "1", "4", "7", "4", "8", "3", "6", "4", "7">>,
     <<"2", "1", "4", "7", "4", "8", "3", "6", "4", "8">>,
     <<"-", "2", "1", "4", "7", "4", "8", "3", "6", "4", "9">>,
     <<"4", "2", "9", "4", "9", "6", "7", "2", "9", "9">>,
     <<"9", "9", "9", "9", "9", "9", "9", "9", "9", "9", "9">>,
     <<"9", "2", "2", "3", "3", "7", "2", "0", "3", "6", "8", "5", "4", "7", "7", "5", "8", "0", "8">>,
     <<"-", "9", "2", "2", "3", "3", "7", "2", "0", "4", "1", "1", "4", "9", "7", "4", "3", "1", "0", "1">>}

\* every value of at most MaxValLen characters, and the long values
RetryVals == UNION {[1..n -> ValChars] : n \in 0..MaxValLen} \cup LongVals

\* the option lists of the parser's specification: a retry=<v> option with
\* other options before and after it, or no retry option at all
ParsePre == {<<>>, <<S_debug>>, <<RetryOpt(2)>>, <<S_typeX>>, <<S_minlen8>>,
             <<S_use_authtok>>}

ParsePost == {<<>>, <<S_debug>>, <<S_minlen8>>, <<S_try_first_pass>>}

ParseArgvSet ==
    {a \o <<S_retry \o v>> \o b : a \in ParsePre, v \in RetryVals, b \in ParsePost}
        \cup {a \o b : a \in ParsePre \ {<<RetryOpt(2)>>}, b \in ParsePost}

InitParse ==
    /\ argv \in ParseArgvSet
    /\ flags = {}
    /\ uid = 0
    /\ pc = "parse_entry"
    /\ argi = 0
    /\ ctrl = 0
    /\ retry_times = CO_RETRY_TIMES
    /\ pwq = "NULL"
    /\ oldtoken = "NULL"
    /\ newtoken = "NULL"
    /\ tries = 0
    /\ retval = 0
    /\ items = [PAM_AUTHTOK |-> "NULL", PAM_OLDAUTHTOK |-> "NULL", PAM_AUTHTOK_TYPE |-> <<>>]
    /\ calls = <<>>
    /\ result = <<>>

NextParse ==
    \/ ParseAlloc
    \/ ParseStep
    \/ ParseReturn

ParseSpec == InitParse /\ [][NextParse]_vars

\* the two specifications compute the same parse: every state in which the
\* step-by-step parser has returned is one PamParse yields for some answers
\* of the library
StepwiseAgrees ==
    pc = "parse_done" =>
        \E alloc_ok \in BOOLEAN, read_ok \in BOOLEAN, bad \in SUBSET LibraryArgs(argv) :
            LET r == PamParse(argv, [PAM_AUTHTOK |-> "NULL", PAM_OLDAUTHTOK |-> "NULL",
                                     PAM_AUTHTOK_TYPE |-> <<>>],
                              <<>>, alloc_ok, read_ok, bad)
            IN  /\ r.ret = ctrl
                /\ r.retry_times = retry_times
                /\ r.pwq = pwq
                /\ r.items = items
                /\ r.calls = calls

---------------------------------------------------------------------------
(* Reading the history *)

Returned == result # <<>>

Status == result[1]

\* the positions in the history of the calls named op
CallsOf(op) == {i \in DOMAIN calls : calls[i].op = op}

NCalls(op) == Cardinality(CallsOf(op))

IsTokenRequest(e) == e.op \in {"pam_get_authtok_noverify", "pam_get_authtok_verify"}

\* a token request answered with success and no token: the user's abort
IsAbort(e) == IsTokenRequest(e) /\ e.ret = 0 /\ e.a = "NULL"

\* a token request answered with a token, which the host has stored as AUTHTOK
GivesToken(e) == IsTokenRequest(e) /\ e.ret = 0 /\ e.a # "NULL"

\* the module's pam_set_item(pamh, PAM_AUTHTOK, NULL)
IsClear(e) == e.op = "pam_set_item" /\ e.a = "PAM_AUTHTOK" /\ e.b = "NULL"

IsRejection(e) == e.op = "pwquality_check" /\ e.ret < 0

MaxOf(S) == CHOOSE x \in S : \A y \in S : y <= x

TokenRequests == {i \in DOMAIN calls : IsTokenRequest(calls[i])}

\* the last thing done to the AUTHTOK item was the module's clearing of it
LastAuthtokActionIsClear ==
    \E i \in DOMAIN calls :
        /\ IsClear(calls[i])
        /\ \A j \in DOMAIN calls : j > i => ~GivesToken(calls[j])

\* the invocation returned from behind the loop (lines 223-230)
ExhaustionReported == Returned /\ calls # <<>> /\ IsClear(calls[Len(calls)])

\* cycle k ended in a transport error, a blocking rejection or a
\* verification failure
CycleFailed(k) ==
    \/ \E i \in CallsOf("pam_get_authtok_noverify") :
          calls[i].cyc = k /\ calls[i].ret # 0
    \/ /\ \E i \in CallsOf("pwquality_check") : calls[i].cyc = k /\ calls[i].ret < 0
       /\ \A i \in CallsOf("pam_get_authtok_verify") : calls[i].cyc # k
    \/ \E i \in CallsOf("pam_get_authtok_verify") :
          calls[i].cyc = k /\ calls[i].ret # 0

\* the position of the pam_error that displays the rejection at position i
\* (0 when there is none): it follows the check, after the debug line if any
ErrorShownAt(i) ==
    IF i + 1 <= Len(calls) /\ calls[i + 1].op = "pam_error" THEN i + 1
    ELSE IF /\ i + 2 <= Len(calls)
            /\ calls[i + 1].op = "pam_syslog"
            /\ calls[i + 2].op = "pam_error"
         THEN i + 2
    ELSE 0

---------------------------------------------------------------------------
(* C1 *)

\* C1 as stated: whenever pam_sm_chauthtok returns success, a verification
\* request of that invocation returned success with a non-null token.
C1_SuccessNeedsVerification ==
    (Returned /\ Status = 0) =>
        \E i \in CallsOf("pam_get_authtok_verify") :
            calls[i].ret = 0 /\ calls[i].a # "NULL"

\* C1 amended: an invocation without the preliminary-check flag returns
\* success only right after a verification request that returned success with
\* a non-null token, the token the candidate request of the same cycle handed
\* back and the host holds as AUTHTOK; with the preliminary-check flag success
\* is returned without any token request.
C1_UpdateSuccessNeedsVerification ==
    (Returned /\ Status = 0) =>
        IF "PAM_PRELIM_CHECK" \in flags
        THEN TokenRequests = {}
        ELSE /\ calls # <<>>
             /\ LET e == calls[Len(calls)]
                IN  /\ e.op = "pam_get_authtok_verify"
                    /\ e.ret = 0
                    /\ e.a # "NULL"
                    /\ e.a = items.PAM_AUTHTOK
                    /\ \E j \in CallsOf("pam_get_authtok_noverify") :
                          /\ calls[j].cyc = e.cyc
                          /\ calls[j].ret = 0
                          /\ calls[j].a = e.a

\* C1 witness: success in the update phase, in the second cycle
C1_Witness ==
    /\ Returned /\ Status = 0
    /\ "PAM_PRELIM_CHECK" \notin flags
    /\ tries = 2
    /\ NCalls("pam_get_authtok_verify") >= 1

---------------------------------------------------------------------------
(* C2 *)

\* C2 as stated: every invocation that returns a non-success status has, as
\* its last action on the AUTHTOK item, set it to empty.
C2_EveryFailureClears ==
    (Returned /\ Status # 0) =>
        LastAuthtokActionIsClear /\ items.PAM_AUTHTOK = "NULL"

\* C2 amended: a failure returned from behind the retry loop (transport
\* error, quality rejection, failed verification, retry exhaustion) ends with
\* the module clearing AUTHTOK as its last call; the abort returns end with
\* the aborted token request and no clearing after it, and the
\* allocation-failure and unexpected-phase returns never touch AUTHTOK.
C2_ExhaustionClears ==
    (Returned /\ Status # 0) =>
        IF TokenRequests = {}
        THEN /\ Status \in {PAM_BUF_ERR, PAM_SERVICE_ERR}
             /\ \A i \in DOMAIN calls : ~IsClear(calls[i])
        ELSE IF IsAbort(calls[MaxOf(TokenRequests)])
        THEN /\ Status = PAM_AUTHTOK_ERR
             /\ MaxOf(TokenRequests) = Len(calls)
        ELSE /\ IsClear(calls[Len(calls)])
             /\ LastAuthtokActionIsClear
             /\ items.PAM_AUTHTOK = "NULL"

\* C2 witness: a failure from behind the loop after a candidate was stored
C2_Witness ==
    /\ Returned /\ Status # 0
    /\ IsClear(calls[Len(calls)])
    /\ \E i \in CallsOf("pam_get_authtok_noverify") : GivesToken(calls[i])
    /\ \E i \in CallsOf("pwquality_check") : calls[i].cyc = retry_times /\ calls[i].ret < 0
    /\ NCalls("pam_get_authtok_verify") = 0

---------------------------------------------------------------------------
(* C3 *)

\* C3 as stated: the returned status is one of PAM_SUCCESS, PAM_BUF_ERR,
\* PAM_AUTHTOK_ERR, PAM_MAXTRIES, PAM_SERVICE_ERR.
C3_FiveStatuses ==
    Returned =>
        Status \in {PAM_SUCCESS, PAM_BUF_ERR, PAM_AUTHTOK_ERR, PAM_MAXTRIES,
                    PAM_SERVICE_ERR}

\* C3 amended: the returned status is one of the five codes, or, when the
\* retry limit is 1 and the single cycle ended in a failed token request,
\* the non-success status that token request returned.
C3_FiveStatusesOrHostStatus ==
    Returned =>
        \/ Status \in {PAM_SUCCESS, PAM_BUF_ERR, PAM_AUTHTOK_ERR, PAM_MAXTRIES,
                       PAM_SERVICE_ERR}
        \/ /\ retry_times = 1
           /\ ExhaustionReported
           /\ TokenRequests # {}
           /\ calls[MaxOf(TokenRequests)].ret = Status
           /\ Status # 0

\* C3 witness: a host status outside the five codes is returned
C3_Witness ==
    /\ Returned
    /\ Status = PAM_TRY_AGAIN
    /\ NCalls("pam_get_authtok_verify") = 1

---------------------------------------------------------------------------
(* C4 *)

\* C4: at most retry_times candidate requests are made, one per cycle, and
\* exhaustion is reported only after exactly retry_times cycles, each ended
\* in a transport error, a blocking rejection or a verification failure.
C4_AtMostNCycles ==
    /\ retry_times >= 1
    /\ tries <= retry_times
    /\ NCalls("pam_get_authtok_noverify") <= retry_times
    /\ \A i, j \in CallsOf("pam_get_authtok_noverify") :
          calls[i].cyc = calls[j].cyc => i = j
    /\ ExhaustionReported =>
          /\ NCalls("pam_get_authtok_noverify") = retry_times
          /\ \A k \in 1..retry_times : CycleFailed(k)

\* C4 witness: exhaustion after three cycles that failed in the three ways
C4_Witness ==
    /\ ExhaustionReported
    /\ retry_times = 3
    /\ \E i \in CallsOf("pam_get_authtok_noverify") : calls[i].ret # 0
    /\ \E i \in CallsOf("pam_get_authtok_verify") : calls[i].ret # 0
    /\ \E i \in CallsOf("pwquality_check") :
          /\ calls[i].ret < 0
          /\ \A j \in CallsOf("pam_get_authtok_verify") : calls[j].cyc # calls[i].cyc

---------------------------------------------------------------------------
(* C5 *)

\* C5 as stated: with retry limit 1, once the quality check has rejected the
\* attempt the final status is the rejection's status (PAM_AUTHTOK_ERR),
\* never PAM_MAXTRIES, and the pending token is cleared (invocations the
\* user aborts are left aside).
C5_SingleTryRejection ==
    (/\ Returned
     /\ retry_times = 1
     /\ \E i \in DOMAIN calls : IsRejection(calls[i])
     /\ \A i \in DOMAIN calls : ~IsAbort(calls[i])) =>
        /\ Status = PAM_AUTHTOK_ERR
        /\ Status # PAM_MAXTRIES
        /\ LastAuthtokActionIsClear
        /\ items.PAM_AUTHTOK = "NULL"

\* C5 amended: with retry limit 1, once the quality check has rejected the
\* attempt and the rejection stands (non-root caller, or expired-token
\* change), the final status is PAM_AUTHTOK_ERR, never PAM_MAXTRIES, and the
\* pending token is cleared; and whenever exhaustion is reported with retry
\* limit 1 the status is the one set by the last failing step of the cycle:
\* PAM_AUTHTOK_ERR after a standing rejection, else the status of the failed
\* token request.
C5_SingleTryStandingRejection ==
    (Returned /\ retry_times = 1) =>
        /\ (/\ \E i \in DOMAIN calls : IsRejection(calls[i])
            /\ (uid # 0 \/ "PAM_CHANGE_EXPIRED_AUTHTOK" \in flags)) =>
               /\ Status = PAM_AUTHTOK_ERR
               /\ Status # PAM_MAXTRIES
               /\ LastAuthtokActionIsClear
               /\ items.PAM_AUTHTOK = "NULL"
               /\ NCalls("pam_get_authtok_verify") = 0
        /\ ExhaustionReported =>
               IF /\ \E i \in DOMAIN calls : IsRejection(calls[i])
                  /\ NCalls("pam_get_authtok_verify") = 0
               THEN Status = PAM_AUTHTOK_ERR
               ELSE /\ TokenRequests # {}
                    /\ Status = calls[MaxOf(TokenRequests)].ret
                    /\ Status # 0

\* C5 witness: a single try, rejected for an ordinary user
C5_Witness ==
    /\ Returned
    /\ retry_times = 1
    /\ uid # 0
    /\ \E i \in DOMAIN calls : IsRejection(calls[i])
    /\ Status = PAM_AUTHTOK_ERR

---------------------------------------------------------------------------
(* C6 *)

\* C6 as stated: with a retry limit above 1, when every one of the attempts
\* was rejected by the quality check the final status is PAM_MAXTRIES, for
\* every acting identity and flag combination of the update phase
\* (invocations the user aborts are left aside).
C6_AllRejectedMaxTries ==
    (/\ Returned
     /\ retry_times > 1
     /\ NCalls("pwquality_check") = retry_times
     /\ \A i \in CallsOf("pwquality_check") : calls[i].ret < 0
     /\ \A i \in DOMAIN calls : ~IsAbort(calls[i])) =>
        Status = PAM_MAXTRIES

\* C6 amended: with a retry limit above 1, when every one of the attempts
\* was rejected by the quality check the final status is PAM_MAXTRIES,
\* unless the caller is root, the change is not an expired-token change and
\* a verification request returned success: then the status is PAM_SUCCESS
\* (non-null token) or PAM_AUTHTOK_ERR (null token: abort).
C6_AllRejectedMaxTriesUnlessOverride ==
    (/\ Returned
     /\ retry_times > 1
     /\ NCalls("pwquality_check") = retry_times
     /\ \A i \in CallsOf("pwquality_check") : calls[i].ret < 0) =>
        IF \E i \in CallsOf("pam_get_authtok_verify") : calls[i].ret = 0
        THEN /\ uid = 0
             /\ "PAM_CHANGE_EXPIRED_AUTHTOK" \notin flags
             /\ LET e == calls[Len(calls)]
                IN  /\ e.op = "pam_get_authtok_verify"
                    /\ e.ret = 0
                    /\ Status = IF e.a = "NULL" THEN PAM_AUTHTOK_ERR ELSE PAM_SUCCESS
        ELSE Status = PAM_MAXTRIES

\* C6 witness: three rejected attempts of root, none verified, end in
\* PAM_MAXTRIES
C6_Witness ==
    /\ Returned
    /\ retry_times = 3
    /\ uid = 0
    /\ "PAM_CHANGE_EXPIRED_AUTHTOK" \notin flags
    /\ NCalls("pwquality_check") = 3
    /\ \A i \in CallsOf("pwquality_check") : calls[i].ret < 0
    /\ Status = PAM_MAXTRIES

---------------------------------------------------------------------------
(* C7 *)

\* C7: a token request (candidate or verification) answered with success and
\* a null token is the last call of the invocation, which has returned
\* PAM_AUTHTOK_ERR in the same step: no quality check, token request, clearing
\* or further cycle follows, however many retries remain.
C7_AbortIsImmediate ==
    /\ \A i \in DOMAIN calls :
          IsAbort(calls[i]) =>
              /\ i = Len(calls)
              /\ Returned
              /\ Status = PAM_AUTHTOK_ERR
              /\ tries = calls[i].cyc
    /\ \A i \in CallsOf("pwquality_check") : calls[i].a # "NULL"

\* C7 witness: an abort at the verification step of the first of three cycles
C7_Witness ==
    /\ Returned
    /\ retry_times = 3
    /\ tries = 1
    /\ calls[Len(calls)].op = "pam_get_authtok_verify"
    /\ IsAbort(calls[Len(calls)])

---------------------------------------------------------------------------
(* C8 *)

\* C8: for root outside an expired-token change, a quality rejection is
\* displayed with pam_error, the pending token is not cleared, the
\* verification request of the same cycle follows directly, and when that
\* request returns success with a non-null token the invocation returns
\* PAM_SUCCESS.
C8_RootOverride ==
    (uid = 0 /\ "PAM_CHANGE_EXPIRED_AUTHTOK" \notin flags) =>
        \A i \in DOMAIN calls :
            IsRejection(calls[i]) =>
                LET m == ErrorShownAt(i)
                IN  /\ m # 0
                    /\ calls[m].cyc = calls[i].cyc
                    /\ IF m = Len(calls)
                       THEN /\ pc = "verify"
                            /\ items.PAM_AUTHTOK = calls[i].a
                       ELSE /\ calls[m + 1].op = "pam_get_authtok_verify"
                            /\ calls[m + 1].cyc = calls[i].cyc
                            /\ GivesToken(calls[m + 1]) =>
                                  /\ Returned
                                  /\ Status = PAM_SUCCESS
                                  /\ m + 1 = Len(calls)
                                  /\ items.PAM_AUTHTOK = calls[i].a

\* C8 witness: root's rejected password is verified and accepted
C8_Witness ==
    /\ uid = 0
    /\ "PAM_CHANGE_EXPIRED_AUTHTOK" \notin flags
    /\ Returned
    /\ Status = PAM_SUCCESS
    /\ \E i \in DOMAIN calls : IsRejection(calls[i]) /\ calls[i].cyc = tries

---------------------------------------------------------------------------
(* C9 *)

\* C9: for a non-root caller, or under an expired-token change, every quality
\* rejection is displayed and followed directly by the clearing of the
\* pending token; no verification request is made in that cycle; the next
\* call, if any, is the candidate request of the next cycle or the clearing
\* behind the loop; and a success can only come from a later cycle.
C9_StandingRejection ==
    (uid # 0 \/ "PAM_CHANGE_EXPIRED_AUTHTOK" \in flags) =>
        \A i \in DOMAIN calls :
            IsRejection(calls[i]) =>
                LET m == ErrorShownAt(i)
                    k == calls[i].cyc
                IN  /\ m # 0
                    /\ m + 1 <= Len(calls)
                    /\ IsClear(calls[m + 1])
                    /\ calls[m + 1].cyc = k
                    /\ \A j \in CallsOf("pam_get_authtok_verify") : calls[j].cyc # k
                    /\ tries >= k
                    /\ IF m + 1 = Len(calls)
                       THEN /\ pc = "loop"
                            /\ tries = k
                            /\ retval = PAM_AUTHTOK_ERR
                            /\ items.PAM_AUTHTOK = "NULL"
                       ELSE \/ /\ calls[m + 2].op = "pam_get_authtok_noverify"
                               /\ calls[m + 2].cyc = k + 1
                            \/ /\ IsClear(calls[m + 2])
                               /\ k = retry_times
                               /\ m + 2 = Len(calls)
                    /\ (Returned /\ Status = PAM_SUCCESS) => calls[Len(calls)].cyc > k

\* C9 witness: root under an expired-token change is rejected, tries again
\* and succeeds in the next cycle
C9_Witness ==
    /\ uid = 0
    /\ "PAM_CHANGE_EXPIRED_AUTHTOK" \in flags
    /\ Returned
    /\ Status = PAM_SUCCESS
    /\ \E i \in DOMAIN calls : IsRejection(calls[i]) /\ calls[i].cyc = 1
    /\ tries = 2

---------------------------------------------------------------------------
(* C10 *)

\* the positions of the retry=<v> options of argv
RetryArgs == {i \in 1..Len(argv) : ArgKind(argv[i]) = "retry"}

\* the value <v> of the last retry=<v> option
LastRetryVal == StrFrom(argv[MaxOf(RetryArgs)], 6)

AllDigits(v) == v # <<>> /\ \A i \in 1..Len(v) : IsDigit(v[i])

\* the digit that writes d
DigitChar(d) ==
    CHOOSE c \in {"0", "1", "2", "3", "4", "5", "6", "7", "8", "9"} : DigitVal(c) = d

\* the decimal numeral of the natural number n
RECURSIVE Numeral(_)
Numeral(n) ==
    IF n < 10 THEN <<DigitChar(n)>>
    ELSE Numeral(n \div 10) \o <<DigitChar(n % 10)>>

\* a string of digits without its leading zeros
RECURSIVE StripZeros(_)
StripZeros(v) ==
    IF Len(v) >= 2 /\ v[1] = "0" THEN StripZeros(StrFrom(v, 1)) ELSE v

\* a string of digits that writes zero
IsZero(v) == AllDigits(v) /\ \A i \in 1..Len(v) : v[i] = "0"

\* a string of digits that writes a number an int holds whatever its digits
FitsInt(v) == AllDigits(v) /\ Len(StripZeros(v)) <= 9

\* a number followed by characters that are not digits
NumberThenJunk(v) == v # <<>> /\ IsDigit(v[1]) /\ ~AllDigits(v)

\* the digits a number followed by other characters starts with
LeadingDigits(v) ==
    SubSeq(v, 1, MaxOf({j \in 1..Len(v) : AllDigits(SubSeq(v, 1, j))}))

\* a minus sign and a number
Negative(v) == Len(v) >= 2 /\ v[1] = "-" /\ AllDigits(StrFrom(v, 1))

\* no number at all: empty, or starting with a character that is neither a
\* digit nor a sign nor white space
NonNumeric(v) == v = <<>> \/ ~(IsDigit(v[1]) \/ v[1] \in {"-", "+"} \/ IsSpace(v[1]))

\* C10 as stated: after parsing, the retry limit is at least 1; it is 1 when
\* there is no retry option; for retry=<v> it is N when v is the positive
\* integer N, and the default 1 when v is 0, negative, non-numeric or a
\* number followed by non-digit characters.
C10_RetryOption ==
    (pc = "parse_done" /\ ctrl >= 0) =>
        /\ retry_times >= 1
        /\ RetryArgs = {} => retry_times = 1
        /\ RetryArgs # {} =>
              LET v == LastRetryVal
              IN  /\ (AllDigits(v) /\ ~IsZero(v)) =>
                        Numeral(retry_times) = StripZeros(v)
                  /\ IsZero(v) => retry_times = 1
                  /\ Negative(v) => retry_times = 1
                  /\ NonNumeric(v) => retry_times = 1
                  /\ NumberThenJunk(v) => retry_times = 1

\* what the code does instead: strtol's result is taken whenever it is at
\* least 1, whatever follows the digits, and a value an int does not hold is
\* cut to its low 32 bits
C10_CodeBehaviour ==
    (pc = "parse_done" /\ ctrl >= 0) =>
        /\ retry_times >= 1
        /\ RetryArgs = {} => retry_times = 1
        /\ RetryArgs # {} =>
              LET v == LastRetryVal
              IN  /\ (FitsInt(v) /\ ~IsZero(v)) =>
                        Numeral(retry_times) = StripZeros(v)
                  /\ IsZero(v) => retry_times = 1
                  /\ (Negative(v) /\ FitsInt(StrFrom(v, 1))) => retry_times = 1
                  /\ NonNumeric(v) => retry_times = 1
                  /\ (NumberThenJunk(v) /\ FitsInt(LeadingDigits(v))) =>
                        IF IsZero(LeadingDigits(v))
                        THEN retry_times = 1
                        ELSE Numeral(retry_times) = StripZeros(LeadingDigits(v))
                  /\ v = <<"2", "1", "4", "7", "4", "8", "3", "6", "4", "8">> =>
                        retry_times = 1
                  /\ v = <<"-", "2", "1", "4", "7", "4", "8", "3", "6", "4", "9">> =>
                        retry_times = 2147483647
                  /\ v = <<"4", "2", "9", "4", "9", "6", "7", "2", "9", "9">> =>
                        retry_times = 3
                  /\ v = <<"-", "9", "2", "2", "3", "3", "7", "2", "0", "4", "1", "1", "4", "9", "7", "4", "3", "1", "0", "1">> =>
                        retry_times = 1

\* the wrap of a negative value to a positive retry limit is reached
C10_WrapReached ==
    /\ pc = "parse_done"
    /\ RetryArgs # {}
    /\ Negative(LastRetryVal)
    /\ retry_times = 2147483647

---------------------------------------------------------------------------
(* The message table's specification: one attempt cycle of the update      *)
(* phase in which the quality library may answer with every result down to *)
(* -MaxPwqCode and every message                                            *)

CheckAllCodes == QualityCheckOn(AllQualityAnswers)

InitMsg ==
    /\ Init
    /\ argv \in {<<>>, <<S_debug>>}
    /\ UpdatePhase(flags)
    /\ ~PrelimPhase(flags)

NextMsg ==
    \/ Parse
    \/ BeginUpdate
    \/ GetCandidate
    \/ CheckAllCodes
    \/ Verify
    \/ Exhausted

MsgSpec == InitMsg /\ [][NextMsg]_vars

---------------------------------------------------------------------------
(* C11 *)

\* the error-code table of the specification, entry by entry
MessageTable ==
    (PWQ_ERROR_MEM_ALLOC :> "memory allocation error")
    @@ (PWQ_ERROR_SAME_PASSWORD :> "is the same as the old one")
    @@ (PWQ_ERROR_PALINDROME :> "is a palindrome")
    @@ (PWQ_ERROR_CASE_CHANGES_ONLY :> "case changes only")
    @@ (PWQ_ERROR_TOO_SIMILAR :> "is too similar to the old one")
    @@ (PWQ_ERROR_MIN_DIGITS :> "is too simple")
    @@ (PWQ_ERROR_MIN_UPPERS :> "is too simple")
    @@ (PWQ_ERROR_MIN_LOWERS :> "is too simple")
    @@ (PWQ_ERROR_MIN_OTHERS :> "is too simple")
    @@ (PWQ_ERROR_MIN_LENGTH :> "is too simple")
    @@ (PWQ_ERROR_ROTATED :> "is rotated")
    @@ (PWQ_ERROR_MIN_CLASSES :> "not enough character classes")
    @@ (PWQ_ERROR_MAX_CONSECUTIVE :> "contains too many same characters consecutively")
    @@ (PWQ_ERROR_EMPTY_PASSWORD :> "No password supplied")

\* the message the table gives for a negative result and a library message
TableMessage(rv, libmsg) ==
    IF rv \in DOMAIN MessageTable THEN MessageTable[rv]
    ELSE IF rv = PWQ_ERROR_CRACKLIB_CHECK THEN libmsg
    ELSE "Error in service module"

\* C11: for every negative result of the quality check, the message handed
\* to pam_error is exactly the table's message for that result (the five
\* minimum codes "is too simple", the dictionary-check failure the library's
\* message verbatim, every other negative code "Error in service module"),
\* whatever the caller, flags and options; a non-negative result displays
\* nothing.
C11_MessageTable ==
    \A i \in CallsOf("pwquality_check") :
        LET m == ErrorShownAt(i)
        IN  IF calls[i].ret < 0
            THEN /\ m # 0
                 /\ calls[m].a = "BAD PASSWORD"
                 /\ calls[m].b = TableMessage(calls[i].ret, calls[i].b)
            ELSE m = 0

\* C11 witness: the invocation has returned after displaying the library's
\* message verbatim for a dictionary-check failure
C11_Witness ==
    /\ pc = "done"
    /\ \E i \in CallsOf("pwquality_check") :
        /\ calls[i].ret = PWQ_ERROR_CRACKLIB_CHECK
        /\ calls[i].b = "it is too short"
        /\ ErrorShownAt(i) # 0
        /\ calls[ErrorShownAt(i)].b = "it is too short"

\* the fallback entry is displayed for the lowest unmapped code
C11_FallbackShown ==
    \E i \in CallsOf("pwquality_check") :
        /\ calls[i].ret = 0 - MaxPwqCode
        /\ ErrorShownAt(i) # 0
        /\ calls[ErrorShownAt(i)].b = "Error in service module"

---------------------------------------------------------------------------
(* C12 *)

\* the position of the last call made while handling the failed token
\* request at position i: the error line, and after a failed verification
\* the clearing of the pending token
FailureHandledAt(i) ==
    IF calls[i].op = "pam_get_authtok_verify" THEN i + 2 ELSE i + 1

\* C12: a token request that returns an error status is not fatal and uses
\* up exactly one retry.  The error is logged; after a failed candidate
\* request neither the quality check nor the verification of that cycle is
\* called; after a failed verification the pending token is cleared; the
\* invocation does not return at that point: the next call is the candidate
\* request of the next cycle when the retry limit allows one, and the
\* clearing behind the loop otherwise.
C12_TransportErrorEndsCycleOnly ==
    \A i \in TokenRequests :
        calls[i].ret # PAM_SUCCESS =>
            LET k == calls[i].cyc
                h == FailureHandledAt(i)
            IN  /\ h <= Len(calls)
                /\ calls[i + 1].op = "pam_syslog"
                /\ calls[i + 1].a = "LOG_ERR"
                /\ Cardinality({j \in CallsOf("pam_get_authtok_noverify") :
                                   calls[j].cyc = k}) = 1
                /\ IF calls[i].op = "pam_get_authtok_noverify"
                   THEN \A j \in DOMAIN calls :
                           calls[j].cyc = k =>
                               calls[j].op \notin {"pwquality_check",
                                                   "pam_get_authtok_verify"}
                   ELSE IsClear(calls[h])
                /\ IF h = Len(calls)
                   THEN ~Returned /\ pc = "loop" /\ tries = k
                   ELSE IF k < retry_times
                   THEN /\ calls[h + 1].op = "pam_get_authtok_noverify"
                        /\ calls[h + 1].cyc = k + 1
                   ELSE /\ h + 1 = Len(calls)
                        /\ IsClear(calls[h + 1])
                        /\ Returned

\* C12 witness: the candidate request of the first cycle and the
\* verification of the second failed, and the third cycle succeeded
C12_Witness ==
    /\ Returned /\ Status = PAM_SUCCESS
    /\ tries = 3
    /\ \E i \in CallsOf("pam_get_authtok_noverify") :
          calls[i].cyc = 1 /\ calls[i].ret # PAM_SUCCESS
    /\ \E i \in CallsOf("pam_get_authtok_verify") :
          calls[i].cyc = 2 /\ calls[i].ret # PAM_SUCCESS

---------------------------------------------------------------------------
(* C13 *)

\* cycle k ended in a quality rejection that stood: the error was displayed,
\* the pending token cleared and no verification requested
BlockingRejectionIn(k) ==
    \E i \in CallsOf("pwquality_check") :
        /\ calls[i].cyc = k
        /\ calls[i].ret < 0
        /\ ErrorShownAt(i) # 0
        /\ ErrorShownAt(i) + 1 <= Len(calls)
        /\ IsClear(calls[ErrorShownAt(i) + 1])
        /\ \A j \in CallsOf("pam_get_authtok_verify") : calls[j].cyc # k

\* in cycle k the candidate was obtained and the quality check accepted it
AcceptedIn(k) ==
    /\ \E i \in CallsOf("pam_get_authtok_noverify") :
          calls[i].cyc = k /\ GivesToken(calls[i])
    /\ \E i \in CallsOf("pwquality_check") :
          calls[i].cyc = k /\ calls[i].ret >= 0

\* the verification of cycle k succeeded with a token
VerifiedIn(k) ==
    \E i \in CallsOf("pam_get_authtok_verify") :
        calls[i].cyc = k /\ GivesToken(calls[i])

\* C13: in the update phase, when the cycles 1..k-1 each ended in a blocking
\* quality rejection and in cycle k the candidate was obtained and accepted
\* by the quality check, then no error is displayed in cycle k and the next
\* call is the verification request of cycle k; once that has succeeded with
\* a non-null token pam_sm_chauthtok has returned success after exactly k
\* attempt cycles (k candidate requests, k quality checks, one verification).
C13_SuccessAfterRejections ==
    \A k \in 1..MaxRetry + 1 :
        (/\ \A c \in 1..k - 1 : BlockingRejectionIn(c)
         /\ AcceptedIn(k)) =>
            /\ UpdatePhase(flags) /\ k <= retry_times
            /\ \A i \in CallsOf("pam_error") : calls[i].cyc # k
            /\ \/ pc = "verify" /\ ~Returned /\ tries = k
               \/ \E i \in CallsOf("pam_get_authtok_verify") : calls[i].cyc = k
            /\ VerifiedIn(k) =>
                  /\ Returned /\ Status = PAM_SUCCESS
                  /\ tries = k
                  /\ NCalls("pam_get_authtok_noverify") = k
                  /\ NCalls("pwquality_check") = k
                  /\ NCalls("pam_get_authtok_verify") = 1
                  /\ calls[Len(calls)].op = "pam_get_authtok_verify"

\* C13 witness: retry=2 with debug, one rejected candidate, then one
\* accepted and verified: success with two cycles
C13_Witness ==
    /\ argv = <<S_debug, RetryOpt(2)>>
    /\ BlockingRejectionIn(1)
    /\ AcceptedIn(2)
    /\ VerifiedIn(2)
    /\ Returned /\ Status = PAM_SUCCESS
    /\ tries = 2

---------------------------------------------------------------------------
(* C14 *)

\* the calls _pam_parse makes
ParserOps == {"pwquality_default_settings", "pwquality_read_config",
              "pwquality_set_option", "pam_syslog", "pam_set_item"}

\* the settings object was allocated by _pam_parse
ConfigAllocated ==
    \E i \in CallsOf("pwquality_default_settings") : calls[i].a # "NULL"

\* C14: with the preliminary-check flag set and the settings allocated,
\* whatever the other flag bits (the update flag included), the invocation
\* returns success as its next step: it makes no call after those of the
\* option parser, so it reads no old token, requests no candidate and no
\* verification, calls no quality check, and never sets the AUTHTOK item,
\* which keeps the value it had on entry.
C14_PrelimIsNoOp ==
    ("PAM_PRELIM_CHECK" \in flags /\ ConfigAllocated) =>
        /\ pc \in {"phase", "done"}
        /\ pc = "done" => Status = PAM_SUCCESS
        /\ \A i \in DOMAIN calls :
              /\ calls[i].op \in ParserOps
              /\ calls[i].op = "pam_set_item" => calls[i].a # "PAM_AUTHTOK"
        /\ NCalls("pam_get_item") = 0
        /\ TokenRequests = {}
        /\ NCalls("pwquality_check") = 0
        /\ items.PAM_AUTHTOK = "NULL"
        /\ tries = 0

\* C14 witness: success returned with both the preliminary-check and the
\* update flag set
C14_Witness ==
    /\ {"PAM_PRELIM_CHECK", "PAM_UPDATE_AUTHTOK"} \subseteq flags
    /\ ConfigAllocated
    /\ Returned /\ Status = PAM_SUCCESS

---------------------------------------------------------------------------
(* C15 *)

\* the debug option is among the module's arguments
DebugGiven == \E i \in DOMAIN argv : argv[i] = S_debug

\* the positions of the unexpected-flags diagnostic
UnknownFlagsLogged ==
    {i \in CallsOf("pam_syslog") : calls[i].b = "UNKNOWN flags setting"}

\* C15 as stated: with neither the preliminary-check nor the update flag
\* set, the invocation returns PAM_SERVICE_ERR without requesting a token or
\* calling the quality check, and the unexpected-flags diagnostic is logged
\* exactly when the debug option was given.
C15_OtherPhaseAlwaysServiceError ==
    ("PAM_PRELIM_CHECK" \notin flags /\ "PAM_UPDATE_AUTHTOK" \notin flags) =>
        /\ TokenRequests = {}
        /\ NCalls("pwquality_check") = 0
        /\ Returned =>
              /\ Status = PAM_SERVICE_ERR
              /\ (UnknownFlagsLogged # {}) <=> DebugGiven

\* C15 amended: with neither the preliminary-check nor the update flag set,
\* the invocation never reads the old token, requests a token or calls the
\* quality check.  When the settings object could not be allocated it
\* returns PAM_BUF_ERR and logs no diagnostic; once the options are parsed
\* (the settings object allocated) it returns PAM_SERVICE_ERR as its next
\* step, and the unexpected-flags diagnostic is its last call when the debug
\* option was given and is absent when it was not.
C15_OtherPhaseIsServiceError ==
    ("PAM_PRELIM_CHECK" \notin flags /\ "PAM_UPDATE_AUTHTOK" \notin flags) =>
        /\ NCalls("pam_get_item") = 0
        /\ TokenRequests = {}
        /\ NCalls("pwquality_check") = 0
        /\ \A i \in DOMAIN calls : calls[i].op \in ParserOps
        /\ ConfigAllocated => pc \in {"phase", "done"}
        /\ (ConfigAllocated /\ Returned) =>
              /\ Status = PAM_SERVICE_ERR
              /\ IF DebugGiven
                 THEN UnknownFlagsLogged = {Len(calls)}
                 ELSE UnknownFlagsLogged = {}
        /\ ~(ConfigAllocated /\ Returned) => UnknownFlagsLogged = {}
        /\ (Returned /\ ~ConfigAllocated) => Status = PAM_BUF_ERR

\* C15 witness: the service error returned for the expired-token flag alone,
\* with the diagnostic logged because debug was given
C15_Witness ==
    /\ flags = {"PAM_CHANGE_EXPIRED_AUTHTOK"}
    /\ DebugGiven
    /\ Returned /\ Status = PAM_SERVICE_ERR
    /\ UnknownFlagsLogged # {}

\* without debug the service error is returned silently
C15_SilentReached ==
    /\ flags = {}
    /\ ~DebugGiven
    /\ Returned /\ Status = PAM_SERVICE_ERR
    /\ UnknownFlagsLogged = {}

---------------------------------------------------------------------------
(* The controller with options that reach the quality library's option     *)
(* setter, which may reject them                                            *)

OptArgvSet ==
    {<<S_minlen8>>, <<S_debug, S_minlen8>>, <<S_minlen8, RetryOpt(2)>>,
     <<S_typeX, S_minlen8, S_use_authtok>>}

InitOpt == InitWith(OptArgvSet)

OptSpec == InitOpt /\ [][Next]_vars

---------------------------------------------------------------------------
(* C16 *)

\* what _pam_parse leaves when the configuration file is read and every
\* option is taken by the library
CleanParse == PamParse(argv, items, <<>>, TRUE, TRUE, {})

ReadConfigFailed ==
    \E i \in CallsOf("pwquality_read_config") : calls[i].ret # 0

OptionRejected ==
    \E i \in CallsOf("pwquality_set_option") : calls[i].ret # 0

\* C16: option parsing fails exactly when the settings object cannot be
\* allocated, and then the invocation has returned PAM_BUF_ERR with no other
\* call made, whatever the phase flags.  A failed read of the configuration
\* file and an option the library's setter rejects are each followed by an
\* error line in the log and nothing else: parsing succeeds, control word,
\* retry limit and prompt type are what they are without those failures, and
\* PAM_BUF_ERR is returned only where it is the host's own answer to a token
\* request, handed on with retry limit 1.
C16_OnlyAllocationFailureIsFatal ==
    pc # "entry" =>
        /\ calls # <<>>
        /\ calls[1].op = "pwquality_default_settings"
        /\ IF calls[1].a = "NULL"
           THEN /\ ctrl < 0
                /\ Returned /\ Status = PAM_BUF_ERR
                /\ Len(calls) = 1
           ELSE /\ ctrl >= 0
                /\ (Returned /\ Status = PAM_BUF_ERR) =>
                      /\ retry_times = 1
                      /\ \E i \in TokenRequests : calls[i].ret = PAM_BUF_ERR
                /\ ctrl = CleanParse.ctrl
                /\ retry_times = CleanParse.retry_times
                /\ items.PAM_AUTHTOK_TYPE = CleanParse.items.PAM_AUTHTOK_TYPE
                /\ \A i \in CallsOf("pwquality_read_config") \cup
                            CallsOf("pwquality_set_option") :
                      calls[i].ret # 0 =>
                          /\ i + 1 <= Len(calls)
                          /\ calls[i + 1].op = "pam_syslog"
                          /\ calls[i + 1].a = "LOG_ERR"

\* C16 witness: the configuration file could not be read and an option was
\* rejected, and the password change succeeded all the same
C16_Witness ==
    /\ ReadConfigFailed
    /\ OptionRejected
    /\ Returned /\ Status = PAM_SUCCESS
    /\ "PAM_PRELIM_CHECK" \notin flags

\* the allocation failure is reached in the preliminary check as well
C16_AllocationFailureReached ==
    /\ "PAM_PRELIM_CHECK" \in flags
    /\ Returned /\ Status = PAM_BUF_ERR

---------------------------------------------------------------------------
(* C17 *)

\* a token request that returned an error status
IsTransportError(e) == IsTokenRequest(e) /\ e.ret # PAM_SUCCESS

\* the call at position i is a line in the system log
LoggedAt(i) ==
    /\ i <= Len(calls)
    /\ calls[i].op = "pam_syslog"
    /\ calls[i].a \in {"LOG_ERR", "LOG_DEBUG"}

\* C17 as stated: every quality rejection and every transport error is
\* logged, at error or debug level, before the controller acts on it,
\* whether or not the debug option was given.
C17_AllLoggedBeforeActedOn ==
    \A i \in DOMAIN calls :
        (IsRejection(calls[i]) \/ IsTransportError(calls[i])) => LoggedAt(i + 1)

\* C17 amended: every transport error is logged at error level, debug or
\* not, as the first thing done after it.  A quality rejection is logged, at
\* debug level, only when the debug option was given; in every
\* configuration its message is displayed to the user with pam_error before
\* the controller acts on it, and without debug that display is the only
\* trace of it and nothing is written to the log.
C17_LoggedOrDisplayedBeforeActedOn ==
    \A i \in DOMAIN calls :
        /\ IsTransportError(calls[i]) =>
              LoggedAt(i + 1) /\ calls[i + 1].a = "LOG_ERR"
        /\ IsRejection(calls[i]) =>
              IF DebugGiven
              THEN /\ LoggedAt(i + 1)
                   /\ calls[i + 1].a = "LOG_DEBUG"
                   /\ ErrorShownAt(i) = i + 2
              ELSE /\ ErrorShownAt(i) = i + 1
                   /\ \A j \in CallsOf("pam_syslog") :
                         calls[j].cyc = calls[i].cyc => calls[j].a = "LOG_ERR"

\* C17 witness: without the debug option, a rejection was displayed and not
\* logged, a transport error was logged, and the invocation has returned
C17_Witness ==
    /\ ~DebugGiven
    /\ Returned
    /\ \E i \in DOMAIN calls : IsRejection(calls[i]) /\ ~LoggedAt(i + 1)
    /\ \E i \in DOMAIN calls : IsTransportError(calls[i]) /\ LoggedAt(i + 1)

---------------------------------------------------------------------------
(* C18 *)

\* the positions of the calls named op made in cycle k
InCycle(op, k) == {i \in CallsOf(op) : calls[i].cyc = k}

\* C18: in every attempt cycle the candidate request is the first call; the
\* quality check is called only after the candidate request of the same
\* cycle returned success with a token, and with that token, never with
\* none; the verification is requested only after the quality check of the
\* same cycle; each of the three is called at most once per cycle, the
\* cycles are numbered 1, 2, ... in the order of their candidate requests,
\* and verification requests <= quality checks <= candidate requests <=
\* retry limit.
C18_StepOrder ==
    /\ \A i \in DOMAIN calls :
          calls[i].cyc >= 1 =>
              \E j \in InCycle("pam_get_authtok_noverify", calls[i].cyc) : j <= i
    /\ \A i \in CallsOf("pwquality_check") :
          /\ calls[i].a # "NULL"
          /\ \E j \in InCycle("pam_get_authtok_noverify", calls[i].cyc) :
                /\ j < i
                /\ calls[j].ret = PAM_SUCCESS
                /\ calls[j].a = calls[i].a
    /\ \A i \in CallsOf("pam_get_authtok_verify") :
          \E j \in InCycle("pwquality_check", calls[i].cyc) : j < i
    /\ \A k \in 1..MaxRetry + 1 :
          /\ Cardinality(InCycle("pam_get_authtok_noverify", k)) <= 1
          /\ Cardinality(InCycle("pwquality_check", k)) <= 1
          /\ Cardinality(InCycle("pam_get_authtok_verify", k)) <= 1
          /\ Cardinality(InCycle("pam_get_authtok_noverify", k)) =
                IF k <= tries THEN 1 ELSE 0
    /\ \A i, j \in CallsOf("pam_get_authtok_noverify") :
          i < j => calls[i].cyc < calls[j].cyc
    /\ NCalls("pam_get_authtok_verify") <= NCalls("pwquality_check")
    /\ NCalls("pwquality_check") <= NCalls("pam_get_authtok_noverify")
    /\ NCalls("pam_get_authtok_noverify") <= retry_times

\* C18 witness: three cycles of which the first stopped at the candidate
\* request, the second at the quality check and the third went through the
\* verification
C18_Witness ==
    /\ Returned
    /\ NCalls("pam_get_authtok_noverify") = 3
    /\ NCalls("pwquality_check") = 2
    /\ NCalls("pam_get_authtok_verify") = 1
    /\ InCycle("pwquality_check", 1) = {}
    /\ InCycle("pam_get_authtok_verify", 2) = {}
    /\ InCycle("pam_get_authtok_verify", 3) # {}

---------------------------------------------------------------------------
(* C19 *)

\* the rejection is overridden: root, and not a forced change of an expired
\* token
OverridePath == uid = 0 /\ "PAM_CHANGE_EXPIRED_AUTHTOK" \notin flags

\* the status the last failing step of cycle k set: the candidate request's
\* or the verification request's error status, or the token error of a
\* rejection that stood
LastFailureStatus(k) ==
    IF \E i \in InCycle("pam_get_authtok_noverify", k) : calls[i].ret # PAM_SUCCESS
    THEN calls[CHOOSE i \in InCycle("pam_get_authtok_noverify", k) : TRUE].ret
    ELSE IF InCycle("pam_get_authtok_verify", k) # {}
    THEN calls[CHOOSE i \in InCycle("pam_get_authtok_verify", k) : TRUE].ret
    ELSE PAM_AUTHTOK_ERR

\* C19: the status returned is never a negative result of the quality
\* library.  The retry-local status is negative only on the override path
\* between a rejection and the verification request of the same cycle; the
\* verification request's status overwrites it before any return or next
\* cycle, and where the rejection stands the status is PAM_AUTHTOK_ERR.
\* With retry limit 1 the status returned on exhaustion is the one the last
\* failing step of the cycle set.
C19_NoLibraryCodeReturned ==
    /\ Returned => Status >= 0
    /\ retval < 0 =>
          /\ pc = "verify"
          /\ OverridePath
          /\ \E i \in InCycle("pwquality_check", tries) :
                /\ calls[i].ret = retval
                /\ ErrorShownAt(i) = Len(calls)
    /\ \A i \in CallsOf("pwquality_check") :
          (calls[i].ret < 0 /\ pc # "verify" /\ calls[i].cyc = tries) =>
              IF OverridePath
              THEN \E j \in InCycle("pam_get_authtok_verify", tries) :
                      j > i /\ retval = calls[j].ret
              ELSE retval = PAM_AUTHTOK_ERR
    /\ (ExhaustionReported /\ retry_times = 1 /\ tries = 1) =>
          Status = LastFailureStatus(1)

\* C19 witness: with retry limit 1 root's rejected password went to a
\* verification that failed, and the verification's status was returned
C19_Witness ==
    /\ ExhaustionReported
    /\ retry_times = 1
    /\ OverridePath
    /\ \E i \in InCycle("pwquality_check", 1) : calls[i].ret < 0
    /\ \E j \in InCycle("pam_get_authtok_verify", 1) :
          calls[j].ret # PAM_SUCCESS /\ Status = calls[j].ret

\* the rejection that stood is returned as the token error
C19_BlockedReached ==
    /\ ExhaustionReported
    /\ retry_times = 1
    /\ ~OverridePath
    /\ \E i \in InCycle("pwquality_check", 1) : calls[i].ret < 0
    /\ Status = PAM_AUTHTOK_ERR

===========================================================================
